---- MODULE Spec2Model ----
(***************************************************************************)
(* ZhixinClient main process (src/main.js): the session gate (credential   *)
(* store, login / logout / query IPC handlers, login and main windows).    *)
(*                                                                         *)
(* Every async handler is cut at its await points: one action per segment  *)
(* of code that runs between two awaits.  A keytar call takes effect, or   *)
(* fails, at the step where its await resumes.                             *)
(***************************************************************************)
EXTENDS Integers, Sequences, FiniteSets, TLC

\* ---------------------------------------------------------------- bounds
MaxInvokes == 1     \* ipcRenderer.invoke calls not yet settled in a renderer, at once
MaxPending == 1     \* logout / clear-auth-token / activate handlers in flight, each
MaxWindows == 2     \* BrowserWindows existing at once
MaxIfaces  == 2     \* entries in the host's network interface list
MaxCalls   == 2     \* get-machine-code results the renderer holds
MaxClock   == 1     \* Date.now() readings after the first

\* ------------------------------------------------------------- JS values
\* A JavaScript value: null, undefined, a string (a sequence of characters)
\* or something that is not a string (a number, an object).
JsNull      == [t |-> "null", s |-> <<>>]
JsUndefined == [t |-> "undefined", s |-> <<>>]
NotAString  == [t |-> "object", s |-> <<>>]
Str(s)      == [t |-> "string", s |-> s]
EmptyString == Str(<<>>)

\* !!v and the left operand test of v || w
Truthy(v) == \/ v.t = "object"
             \/ v.t = "string" /\ v.s # <<>>

\* v || w
OrElse(v, w) == IF Truthy(v) THEN v ELSE w

IsSpace(c) == c = " "

RECURSIVE TrimLeft(_)
TrimLeft(s) == IF s # <<>> /\ IsSpace(Head(s)) THEN TrimLeft(Tail(s)) ELSE s

RECURSIVE TrimRight(_)
TrimRight(s) == IF s # <<>> /\ IsSpace(s[Len(s)])
                THEN TrimRight(SubSeq(s, 1, Len(s) - 1)) ELSE s

\* String.prototype.trim on a string value
Trim(v) == Str(TrimRight(TrimLeft(v.s)))

\* The username, password and remember arguments a renderer can send.
Usernames == {Str(<<>>), Str(<<"a">>), Str(<<" ", "a", " ">>), NotAString}
Passwords == {Str(<<"a">>), NotAString}

\* ------------------------------------------------------------- constants
SERVICE_NAME == "zhixin-client"
ACCOUNT_KEY  == "auth-token"
USERNAME_KEY == "remembered-username"
Keys         == {ACCOUNT_KEY, USERNAME_KEY}
mockToken    == Str(<<"e", "y", "J">>)

\* ----------------------------------------------------------------- state
VARIABLES
    appState,          \* "starting" (before whenReady's gate has run), "ready", "quit"
    isMac,             \* process.platform === 'darwin'
    keychain,          \* the credential store under SERVICE_NAME: key -> value or null
    windows,           \* the BrowserWindows that exist: id -> window record or NoWindow
    loginWindow,       \* the global reference: a window id or 0 (null)
    mainWindow,        \* the global reference: a window id or 0 (null)
    invokes,           \* the renderer's invoke calls: slot -> idle, a login in flight,
                       \* or a result not yet delivered to the renderer
    logoutsPending,    \* logout handlers awaiting deletePassword
    clearsPending,     \* clear-auth-token handlers awaiting deletePassword
    activatesPending,  \* activate handlers awaiting checkAuthToken
    host,              \* what the os module reports about this machine
    clock,             \* Date.now()
    machineCodes       \* the get-machine-code results so far, oldest first

\* The part of the state get-machine-code reads and writes.
machineVars == <<host, clock, machineCodes>>

vars == <<appState, isMac, keychain, windows, loginWindow, mainWindow, invokes,
          logoutsPending, clearsPending, activatesPending, host, clock, machineCodes>>

Null == 0

\* The process runs: whenReady's gate is through and app.quit() not called.
Ready == appState = "ready"
WindowIds == 1..MaxWindows
InvokeIds == 1..MaxInvokes

\* A window: which page it loads and whether close() has been called on it.
\* Whether it is shown yet (ready-to-show, show()) is not part of the state:
\* no handler reads it.
NoWindow == [kind |-> "none", closing |-> FALSE]
NewWindow(kind) == [kind |-> kind, closing |-> FALSE]

Exists(w)  == windows[w].kind # "none"
IsOpen(w)  == Exists(w) /\ ~windows[w].closing
\* BrowserWindow.getAllWindows()
getAllWindows == {w \in WindowIds : Exists(w)}
OpenOfKind(kind) == {w \in WindowIds : IsOpen(w) /\ windows[w].kind = kind}
FreeIds == {w \in WindowIds : ~Exists(w)}

\* What a handler gave its caller: a value, or an error thrown across.
NoResult == [thrown |-> FALSE, val |-> JsUndefined]
\* An invoke slot.  Two fields are history, read by no handler: clobbered
\* (a delete removed the credential this login had written) and baseline
\* (the credential the store would hold had this login not been submitted).
Idle     == [pc |-> "idle", op |-> "none", username |-> JsNull, remember |-> FALSE,
             clobbered |-> FALSE, baseline |-> JsNull, result |-> NoResult]

\* Where a login submission waits: the network delay, the credential
\* write, the username write or delete.
InFlight == {"delay", "setToken", "setUser"}

\* ------------------------------------------------ values a call can raise
\* What a failing call rejects with or throws.  A JavaScript promise can
\* reject with any value, so the shapes differ in what the login handler's
\* catch block reads: error.code and error.message.
\*   TypeError         an Error, no matching code, message without 'timeout'
\*   ENOTFOUND, ECONNREFUSED   an Error carrying that code
\*   Timeout           an Error whose message includes 'timeout'
\*   StoreAccessError  an Error, no code, message without 'timeout'
\*   BareCode          an object {code: 'ENOTFOUND'} with no message
\*   PlainString       a rejected string: no code, no message property
\*   Undefined         a rejection with undefined or null
ErrorValues == {"TypeError", "ENOTFOUND", "ECONNREFUSED", "Timeout",
                "StoreAccessError", "BareCode", "PlainString", "Undefined"}
IsNullish(e)   == e = "Undefined"
ErrorCode(e)   == CASE e \in {"ENOTFOUND", "BareCode"} -> "ENOTFOUND"
                    [] e = "ECONNREFUSED" -> "ECONNREFUSED"
                    [] OTHER -> "undefined"
HasMessage(e)  == e \in {"TypeError", "ENOTFOUND", "ECONNREFUSED", "Timeout",
                         "StoreAccessError"}
MessageIncludesTimeout(e) == e = "Timeout"

\* --------------------------------------------------- the credential store
\* keytar (./src/mock-keytar): get / set / delete of one secret, each call
\* atomic, each call able to fail; get of a missing key gives null.
StoreErrors   == ErrorValues \ {"TypeError"}
StoreOutcomes == {"ok"} \cup StoreErrors
Got(v)        == [ok |-> TRUE, val |-> v, err |-> "none"]
GetFailed(e)  == [ok |-> FALSE, val |-> JsUndefined, err |-> e]
getPasswordFrom(kc, key) == {Got(kc[key])} \cup {GetFailed(e) : e \in StoreErrors}
getPassword(key)        == getPasswordFrom(keychain, key)
setPassword(kc, key, v) == [kc EXCEPT ![key] = v]
deletePassword(kc, key) == [kc EXCEPT ![key] = JsNull]

\* ------------------------------------------------------------ the windows
FreshId == CHOOSE w \in FreeIds : \A v \in FreeIds : w <= v

\* win.close(): the window starts closing; its 'closed' event comes later.
Close(ws, w) == [ws EXCEPT ![w].closing = TRUE]

\* new BrowserWindow({... show: false ...}) loading the page of that kind
Create(ws, w, kind) == [ws EXCEPT ![w] = NewWindow(kind)]

\* The reference a window's ready-to-show and closed callbacks use: the
\* global variable of its kind, whichever window that variable now holds.
RefOf(kind) == IF kind = "login" THEN loginWindow ELSE mainWindow

\* createLoginWindow(): a new login window, and loginWindow refers to it.
createLoginWindow(ws) ==
    /\ FreeIds # {}
    /\ windows' = Create(ws, FreshId, "login")
    /\ loginWindow' = FreshId

\* createMainWindow(): a new main window, and mainWindow refers to it.
createMainWindow(ws) ==
    /\ FreeIds # {}
    /\ windows' = Create(ws, FreshId, "main")
    /\ mainWindow' = FreshId

\* window-control 'close' from the window's renderer, or its close button.
WindowControlClose(w) ==
    /\ Ready
    /\ IsOpen(w)
    /\ windows' = Close(windows, w)
    /\ UNCHANGED machineVars
    /\ UNCHANGED <<appState, isMac, keychain, loginWindow, mainWindow, invokes,
                   logoutsPending, clearsPending, activatesPending>>

\* app.on('window-all-closed')
windowAllClosed(state) == IF ~isMac THEN "quit" ELSE state

\* Mutant: the 'closed' event also drops the submissions in flight.
Closed_Cancels(w) ==
    /\ Ready
    /\ Exists(w) /\ windows[w].closing
    /\ windows' = [windows EXCEPT ![w] = NoWindow]
    /\ IF windows[w].kind = "login"
       THEN loginWindow' = Null /\ UNCHANGED mainWindow
       ELSE mainWindow' = Null /\ UNCHANGED loginWindow
    /\ appState' = IF getAllWindows = {w} THEN windowAllClosed(appState) ELSE appState
    /\ invokes' = [p \in InvokeIds |-> Idle]
    /\ UNCHANGED machineVars
    /\ UNCHANGED <<isMac, keychain, logoutsPending, clearsPending, activatesPending>>

\* The 'closed' event of a window that was closing: the window is gone, the
\* callback clears the global reference of its kind, and with no window
\* left window-all-closed fires.
Closed(w) ==
    /\ Ready
    /\ Exists(w) /\ windows[w].closing
    /\ windows' = [windows EXCEPT ![w] = NoWindow]
    /\ IF windows[w].kind = "login"
       THEN loginWindow' = Null /\ UNCHANGED mainWindow
       ELSE mainWindow' = Null /\ UNCHANGED loginWindow
    /\ appState' = IF getAllWindows = {w} THEN windowAllClosed(appState) ELSE appState
    /\ UNCHANGED machineVars
    /\ UNCHANGED <<isMac, keychain, invokes, logoutsPending, clearsPending,
                   activatesPending>>

\* Some renderer exists to send an IPC message.
RendererAlive == Ready /\ \E w \in WindowIds : IsOpen(w)

\* ------------------------------------------------- startup and activate
\* checkAuthToken(): !!token of the read, false when the read fails.
checkAuthToken(outcome) == IF outcome.ok THEN Truthy(outcome.val) ELSE FALSE

\* Mutant: the two branches of the gate exchanged.
Gate_Swapped(hasValidToken) ==
    IF hasValidToken
    THEN createLoginWindow(windows) /\ UNCHANGED mainWindow
    ELSE createMainWindow(windows) /\ UNCHANGED loginWindow

\* if (hasValidToken) createMainWindow() else createLoginWindow()
Gate(hasValidToken) ==
    IF hasValidToken
    THEN createMainWindow(windows) /\ UNCHANGED loginWindow
    ELSE createLoginWindow(windows) /\ UNCHANGED mainWindow

\* app.whenReady().then(...): the gate, then the activate handler is set.
Startup ==
    /\ appState = "starting"
    /\ \E outcome \in getPassword(ACCOUNT_KEY) : Gate(checkAuthToken(outcome))
    /\ appState' = "ready"
    /\ UNCHANGED machineVars
    /\ UNCHANGED <<isMac, keychain, invokes, logoutsPending, clearsPending,
                   activatesPending>>

\* app.on('activate') (macOS only), up to its await.
Activate ==
    /\ Ready
    /\ isMac
    /\ getAllWindows = {}
    /\ activatesPending < MaxPending
    /\ activatesPending' = activatesPending + 1
    /\ UNCHANGED machineVars
    /\ UNCHANGED <<appState, isMac, keychain, windows, loginWindow, mainWindow,
                   invokes, logoutsPending, clearsPending>>

\* app.on('activate') after its await.
ActivateDone ==
    /\ Ready
    /\ activatesPending > 0
    /\ activatesPending' = activatesPending - 1
    /\ \E outcome \in getPassword(ACCOUNT_KEY) : Gate(checkAuthToken(outcome))
    /\ UNCHANGED machineVars
    /\ UNCHANGED <<appState, isMac, keychain, invokes, logoutsPending,
                   clearsPending>>

\* ---------------------------------------------------------------- login
\* The result messages (the source's are Chinese; these are their meaning).
MSG_SUCCESS == "login succeeded"
MSG_DEFAULT == "login failed, please retry"
MSG_NETWORK == "network connection failed, please check the network settings"
MSG_TIMEOUT == "request timed out, please retry"

Returned(val) == [thrown |-> FALSE, val |-> val]
\* The handler's promise rejects: the error crosses to the renderer.
Thrown        == [thrown |-> TRUE, val |-> JsUndefined]
LoginResult(success, message) == Returned([success |-> success, message |-> message])

\* The catch block of the login handler, given the value caught.  Reading
\* error.code of undefined / null throws, and so does calling .includes on
\* a message that is not there; an exception inside catch leaves the handler.
LoginCatch(error) ==
    IF IsNullish(error) THEN Thrown
    ELSE IF ErrorCode(error) \in {"ENOTFOUND", "ECONNREFUSED"}
         THEN LoginResult(FALSE, MSG_NETWORK)
    ELSE IF ~HasMessage(error) THEN Thrown
    ELSE IF MessageIncludesTimeout(error) THEN LoginResult(FALSE, MSG_TIMEOUT)
    ELSE LoginResult(FALSE, MSG_DEFAULT)

\* requestData: the trimmed username and the password hash.
RequestData(username) == [username |-> Trim(username), password |-> "sha256"]

\* Mutant: the token is never stored.
StoreToken_Skipped(kc) == kc

\* Step 5: setPassword(ACCOUNT_KEY, mockToken)
StoreToken(kc) == setPassword(kc, ACCOUNT_KEY, mockToken)

\* Mutant: the else branch that deletes the stored username is missing.
RememberUsername_NoDelete(kc, username, remember) ==
    IF remember THEN setPassword(kc, USERNAME_KEY, username) ELSE kc

\* Step 6: setPassword(USERNAME_KEY, username) when remember is set,
\* deletePassword(USERNAME_KEY) otherwise.
RememberUsername(kc, username, remember) ==
    IF remember THEN setPassword(kc, USERNAME_KEY, username)
                ELSE deletePassword(kc, USERNAME_KEY)

\* Step 7: close the login window the reference holds, if any.
CloseLoginWindow(ws) == IF loginWindow # Null THEN Close(ws, loginWindow) ELSE ws

\* A handler is done: its result waits in the slot for the renderer.
Settle(p, op, result) ==
    [invokes EXCEPT ![p] = [pc |-> "returned", op |-> op, username |-> JsNull,
                            remember |-> FALSE, clobbered |-> FALSE,
                            baseline |-> JsNull, result |-> result]]

\* Mutant: the credential is written when the submission arrives, before
\* the backend has answered.
LoginInvoke_StoresFirst(p, username, password, remember) ==
    /\ RendererAlive
    /\ invokes[p].pc = "idle"
    /\ password.t = "string" /\ username.t = "string"
    /\ invokes' = [invokes EXCEPT ![p] =
                     [pc |-> "delay", op |-> "login", username |-> username,
                      remember |-> remember, clobbered |-> FALSE,
                      baseline |-> keychain[ACCOUNT_KEY], result |-> NoResult]]
    /\ keychain' = StoreToken(keychain)
    /\ UNCHANGED machineVars
    /\ UNCHANGED <<appState, isMac, windows, loginWindow, mainWindow,
                   logoutsPending, clearsPending, activatesPending>>

\* The handler up to its first await: hashing a password that is no string
\* and trimming a username that is no string both throw a TypeError.
LoginInvoke(p, username, password, remember) ==
    /\ RendererAlive
    /\ invokes[p].pc = "idle"
    /\ invokes' = IF password.t # "string" \/ username.t # "string"
                  THEN [invokes EXCEPT ![p] =
                          [pc |-> "returned", op |-> "login", username |-> JsNull,
                           remember |-> FALSE, clobbered |-> FALSE,
                           baseline |-> JsNull,
                           result |-> LoginCatch("TypeError")]]
                  ELSE [invokes EXCEPT ![p] =
                          [pc |-> "delay", op |-> "login", username |-> username,
                           remember |-> remember, clobbered |-> FALSE,
                           baseline |-> keychain[ACCOUNT_KEY],
                           result |-> NoResult]]
    /\ UNCHANGED machineVars
    /\ UNCHANGED <<appState, isMac, keychain, windows, loginWindow, mainWindow,
                   logoutsPending, clearsPending, activatesPending>>

\* The simulated network delay is over: the backend 'answers' with mockToken
\* and the handler calls setPassword(ACCOUNT_KEY, mockToken).
LoginDelayDone(p) ==
    /\ Ready
    /\ invokes[p].pc = "delay"
    /\ invokes' = [invokes EXCEPT ![p].pc = "setToken"]
    /\ UNCHANGED machineVars
    /\ UNCHANGED <<appState, isMac, keychain, windows, loginWindow, mainWindow,
                   logoutsPending, clearsPending, activatesPending>>

\* setPassword(ACCOUNT_KEY, mockToken) resolves or rejects; on success the
\* handler goes on to the username call.
LoginSetTokenDone(p) ==
    /\ Ready
    /\ invokes[p].pc = "setToken"
    /\ \E outcome \in StoreOutcomes :
         IF outcome = "ok"
         THEN /\ keychain' = StoreToken(keychain)
              /\ invokes' = [q \in InvokeIds |->
                               IF q = p THEN [invokes[q] EXCEPT !.pc = "setUser"]
                               ELSE IF invokes[q].pc \in InFlight
                                    THEN [invokes[q] EXCEPT !.baseline = mockToken]
                                    ELSE invokes[q]]
         ELSE /\ invokes' = Settle(p, "login", LoginCatch(outcome))
              /\ UNCHANGED keychain
    /\ UNCHANGED machineVars
    /\ UNCHANGED <<appState, isMac, windows, loginWindow, mainWindow,
                   logoutsPending, clearsPending, activatesPending>>

\* Mutant: the login window is closed before the username call's outcome
\* is known, so a failure leaves it closed.
LoginSetUserDone_ClosesFirst(p) ==
    /\ Ready
    /\ invokes[p].pc = "setUser"
    /\ \E outcome \in StoreOutcomes :
         IF outcome = "ok"
         THEN /\ keychain' = RememberUsername(keychain, invokes[p].username,
                                              invokes[p].remember)
              /\ createMainWindow(CloseLoginWindow(windows))
              /\ loginWindow' = Null
              /\ invokes' = Settle(p, "login", LoginResult(TRUE, MSG_SUCCESS))
         ELSE /\ invokes' = Settle(p, "login", LoginCatch(outcome))
              /\ windows' = CloseLoginWindow(windows)
              /\ loginWindow' = Null
              /\ UNCHANGED <<keychain, mainWindow>>
    /\ UNCHANGED machineVars
    /\ UNCHANGED <<appState, isMac, logoutsPending, clearsPending, activatesPending>>

\* The username call resolves or rejects; on success the login window is
\* closed, the main window created and the success result returned.
LoginSetUserDone(p) ==
    /\ Ready
    /\ invokes[p].pc = "setUser"
    /\ \E outcome \in StoreOutcomes :
         IF outcome = "ok"
         THEN /\ keychain' = RememberUsername(keychain, invokes[p].username,
                                              invokes[p].remember)
              /\ createMainWindow(CloseLoginWindow(windows))
              /\ loginWindow' = Null
              /\ invokes' = Settle(p, "login", LoginResult(TRUE, MSG_SUCCESS))
         ELSE /\ invokes' = Settle(p, "login", LoginCatch(outcome))
              /\ UNCHANGED <<keychain, windows, loginWindow, mainWindow>>
    /\ UNCHANGED machineVars
    /\ UNCHANGED <<appState, isMac, logoutsPending, clearsPending, activatesPending>>

\* The renderer's promise settles with the result; the slot is free again.
Deliver(p) ==
    /\ Ready
    /\ invokes[p].pc = "returned"
    /\ invokes' = [invokes EXCEPT ![p] = Idle]
    /\ UNCHANGED machineVars
    /\ UNCHANGED <<appState, isMac, keychain, windows, loginWindow, mainWindow,
                   logoutsPending, clearsPending, activatesPending>>

\* --------------------------------------------- logout, clear-auth-token
\* A submission that has written the credential and not yet returned sees
\* it removed under it.
Clobber(ls) == [p \in InvokeIds |->
                  IF ls[p].pc = "setUser"
                  THEN [ls[p] EXCEPT !.clobbered = TRUE, !.baseline = JsNull]
                  ELSE IF ls[p].pc \in InFlight THEN [ls[p] EXCEPT !.baseline = JsNull]
                  ELSE ls[p]]

\* Mutant: logout wipes the remembered username together with the token.
LogoutDelete_AlsoUsername(kc) ==
    deletePassword(deletePassword(kc, ACCOUNT_KEY), USERNAME_KEY)

\* Mutant: clear-auth-token wipes the remembered username as well.
ClearDelete_AlsoUsername(kc) ==
    deletePassword(deletePassword(kc, ACCOUNT_KEY), USERNAME_KEY)

\* Mutant: logout deletes the remembered username instead of the token.
LogoutDelete_WrongKey(kc) == deletePassword(kc, USERNAME_KEY)

\* logout: deletePassword(ACCOUNT_KEY)
LogoutDelete(kc) == deletePassword(kc, ACCOUNT_KEY)

\* clear-auth-token: deletePassword(ACCOUNT_KEY)
ClearDelete(kc) == deletePassword(kc, ACCOUNT_KEY)

\* Close the main window the reference holds, if any.
CloseMainWindow(ws) == IF mainWindow # Null THEN Close(ws, mainWindow) ELSE ws

\* ipcMain.on('logout') up to its await.
Logout ==
    /\ RendererAlive
    /\ logoutsPending < MaxPending
    /\ logoutsPending' = logoutsPending + 1
    /\ UNCHANGED machineVars
    /\ UNCHANGED <<appState, isMac, keychain, windows, loginWindow, mainWindow,
                   invokes, clearsPending, activatesPending>>

\* deletePassword(ACCOUNT_KEY) resolves: close the main window, create a
\* login window.  When it rejects the catch block only logs.
LogoutDone ==
    /\ Ready
    /\ logoutsPending > 0
    /\ logoutsPending' = logoutsPending - 1
    /\ \E outcome \in {"ok", "StoreAccessError"} :
         IF outcome = "ok"
         THEN /\ keychain' = LogoutDelete(keychain)
              /\ invokes' = Clobber(invokes)
              /\ createLoginWindow(CloseMainWindow(windows))
              /\ mainWindow' = Null
         ELSE UNCHANGED <<keychain, invokes, windows, loginWindow, mainWindow>>
    /\ UNCHANGED machineVars
    /\ UNCHANGED <<appState, isMac, clearsPending, activatesPending>>

\* ipcMain.on('clear-auth-token') up to its await.
ClearAuthToken ==
    /\ RendererAlive
    /\ clearsPending < MaxPending
    /\ clearsPending' = clearsPending + 1
    /\ UNCHANGED machineVars
    /\ UNCHANGED <<appState, isMac, keychain, windows, loginWindow, mainWindow,
                   invokes, logoutsPending, activatesPending>>

\* deletePassword(ACCOUNT_KEY) resolves or rejects; nothing else is done.
ClearAuthTokenDone ==
    /\ Ready
    /\ clearsPending > 0
    /\ clearsPending' = clearsPending - 1
    /\ \E outcome \in {"ok", "StoreAccessError"} :
         IF outcome = "ok"
         THEN /\ keychain' = ClearDelete(keychain)
              /\ invokes' = Clobber(invokes)
         ELSE UNCHANGED <<keychain, invokes>>
    /\ UNCHANGED machineVars
    /\ UNCHANGED <<appState, isMac, windows, loginWindow, mainWindow,
                   logoutsPending, activatesPending>>

\* ------------------------------------------------------ read-only queries
\* Mutant: isAuthenticated: !token
CheckAuthResult_Negated(outcome) ==
    IF outcome.ok
    THEN Returned([isAuthenticated |-> ~Truthy(outcome.val), token |-> outcome.val])
    ELSE Returned([isAuthenticated |-> FALSE, token |-> JsUndefined])

\* check-auth: {isAuthenticated: !!token, token}; {isAuthenticated: false}
\* when the read fails.
CheckAuthResult(outcome) ==
    IF outcome.ok
    THEN Returned([isAuthenticated |-> Truthy(outcome.val), token |-> outcome.val])
    ELSE Returned([isAuthenticated |-> FALSE, token |-> JsUndefined])

\* get-stored-username: username || '', '' when the read fails.
StoredUsernameResult(outcome) ==
    IF outcome.ok THEN Returned(OrElse(outcome.val, EmptyString))
                  ELSE Returned(EmptyString)

\* Mutant: no try / catch around the read.
AuthTokenResult_NoCatch(outcome) ==
    IF outcome.ok THEN Returned(OrElse(outcome.val, EmptyString))
                  ELSE Thrown

\* get-auth-token: token || '', '' when the read fails.
AuthTokenResult(outcome) ==
    IF outcome.ok THEN Returned(OrElse(outcome.val, EmptyString))
                  ELSE Returned(EmptyString)

\* A query handler, from invoke to its return: one read of the store.
Query(p, op, result) ==
    /\ RendererAlive
    /\ invokes[p].pc = "idle"
    /\ invokes' = Settle(p, op, result)
    /\ UNCHANGED machineVars
    /\ UNCHANGED <<appState, isMac, keychain, windows, loginWindow, mainWindow,
                   logoutsPending, clearsPending, activatesPending>>

CheckAuth(p) ==
    \E outcome \in getPassword(ACCOUNT_KEY) : Query(p, "check-auth", CheckAuthResult(outcome))

GetStoredUsername(p) ==
    \E outcome \in getPassword(USERNAME_KEY) :
        Query(p, "get-stored-username", StoredUsernameResult(outcome))

GetAuthToken(p) ==
    \E outcome \in getPassword(ACCOUNT_KEY) : Query(p, "get-auth-token", AuthTokenResult(outcome))

\* ------------------------------------------------------- getMachineCode
\* Strings of the fingerprint are sequences of one-character strings.
HexDigits == <<"0", "1", "2", "3", "4", "5", "6", "7",
               "8", "9", "a", "b", "c", "d", "e", "f">>
UpperHexDigits == {"0", "1", "2", "3", "4", "5", "6", "7", "8", "9",
                   "A", "B", "C", "D", "E", "F"}

\* String.prototype.toUpperCase, one character
UpperChar(c) == CASE c = "a" -> "A" [] c = "b" -> "B" [] c = "c" -> "C"
                  [] c = "d" -> "D" [] c = "e" -> "E" [] c = "f" -> "F"
                  [] OTHER -> c
toUpperCase(s) == [i \in DOMAIN s |-> UpperChar(s[i])]

\* String.prototype.substring(from, to), 0 <= from <= to
substring(s, from, to) == SubSeq(s, from + 1, IF to < Len(s) THEN to ELSE Len(s))

\* What os reports.  A network interface entry: the name it is listed
\* under, its mac ('' when it has none), internal, family.
ZeroMac   == "00:00:00:00:00:00"
MacAbsent == ""
Ifaces == {[name |-> "eth0", mac |-> "aa:bb:cc:dd:ee:01", internal |-> FALSE, family |-> "IPv4"],
           [name |-> "tun0", mac |-> ZeroMac,             internal |-> FALSE, family |-> "IPv6"],
           [name |-> "veth", mac |-> "aa:bb:cc:dd:ee:02", internal |-> TRUE,  family |-> "IPv4"],
           [name |-> "ppp0", mac |-> MacAbsent,           internal |-> FALSE, family |-> "IPv4"]}
IfaceLists == UNION {[1..n -> Ifaces] : n \in 0..MaxIfaces}
Hostnames  == {"host-a", "host-b"}
Hosts == [hostname : Hostnames, platform : {"linux"}, arch : {"x64"},
          cpus : {<<[model |-> "cpu-x"], [model |-> "cpu-x"]>>},
          totalMem : {"8589934592"}, networkInterfaces : IfaceLists]

\* Mutant: the all-zero address is let through.
Contributes_ZeroAllowed(iface) == ~iface.internal /\ iface.mac # MacAbsent

\* !iface.internal && iface.mac && iface.mac !== '00:00:00:00:00:00'
Contributes(iface) == ~iface.internal /\ iface.mac # MacAbsent /\ iface.mac # ZeroMac

\* The two loops over os.networkInterfaces(): one record pushed per
\* contributing entry, in enumeration order.
RECURSIVE CollectInterfaces(_)
CollectInterfaces(ifaces) ==
    IF ifaces = <<>> THEN <<>>
    ELSE (IF Contributes(Head(ifaces))
          THEN <<[name |-> Head(ifaces).name, mac |-> Head(ifaces).mac,
                  family |-> Head(ifaces).family]>>
          ELSE <<>>) \o CollectInterfaces(Tail(ifaces))

\* const info = {...} after the loops
CollectInfo(h) ==
    [hostname |-> h.hostname, platform |-> h.platform, arch |-> h.arch,
     cpus |-> [i \in DOMAIN h.cpus |-> h.cpus[i].model],
     totalMem |-> h.totalMem,
     networkInterfaces |-> CollectInterfaces(h.networkInterfaces)]

\* The replacer of JSON.stringify: undefined becomes null.
Replacer(v) == IF v = "undefined" THEN "null" ELSE v

RECURSIVE StringifyInterfaces(_)
StringifyInterfaces(recs) ==
    IF recs = <<>> THEN <<>>
    ELSE <<"{", "name", Replacer(Head(recs).name), "mac", Replacer(Head(recs).mac),
           "family", Replacer(Head(recs).family), "}">>
         \o StringifyInterfaces(Tail(recs))

\* JSON.stringify(info, replacer): the fields in the order of the object
\* literal, as a sequence of tokens.
Stringify(info) ==
    <<"{", "hostname", Replacer(info.hostname), "platform", Replacer(info.platform),
      "arch", Replacer(info.arch), "cpus", "[">>
    \o [i \in DOMAIN info.cpus |-> Replacer(info.cpus[i])]
    \o <<"]", "totalMem", Replacer(info.totalMem), "networkInterfaces", "[">>
    \o StringifyInterfaces(info.networkInterfaces)
    \o <<"]", "}">>

\* The bytes update() is given: one number per token, one per clock reading.
Tokens == <<"{", "}", "[", "]", "null", "hostname", "platform", "arch", "cpus",
            "totalMem", "networkInterfaces", "name", "mac", "family",
            "host-a", "host-b", "linux", "x64", "cpu-x", "8589934592",
            "eth0", "tun0", "veth", "ppp0", "IPv4", "IPv6",
            ZeroMac, "aa:bb:cc:dd:ee:01", "aa:bb:cc:dd:ee:02">>
Utf8(tokens) == [i \in DOMAIN tokens |->
                   CHOOSE k \in DOMAIN Tokens : Tokens[k] = tokens[i]]
\* os.hostname() + Date.now()
HostnameAndTime(hostname, now) == Utf8(<<hostname>>) \o <<Len(Tokens) + 1 + now>>

\* crypto.createHash('sha256').update(bytes).digest('hex'): 64 lowercase
\* hexadecimal digits, a function of the bytes.  SHA-256 itself is not
\* computed; a small mixing function over the bytes stands for it.
DigestLength == 64
RECURSIVE Absorb(_, _)
Absorb(h, bytes) == IF bytes = <<>> THEN h
                    ELSE Absorb((h * 31 + Head(bytes)) % 65521, Tail(bytes))
RECURSIVE Squeeze(_, _)
Squeeze(x, n) == IF n = 0 THEN <<>>
                 ELSE <<HexDigits[(x % 16) + 1]>> \o Squeeze((x * 75 + 74) % 65537, n - 1)
sha256hex(bytes) == Squeeze(Absorb(7, bytes), DigestLength)

\* Mutant: the digest prefix is returned as digest('hex') gives it.
NormalCode_NoUpperCase(info) == substring(sha256hex(Utf8(Stringify(info))), 0, 16)

\* hash.substring(0, 16).toUpperCase()
NormalCode(info) == toUpperCase(substring(sha256hex(Utf8(Stringify(info))), 0, 16))

\* 'MC_' + sha256(os.hostname() + Date.now()).substring(0, 13).toUpperCase()
MC_Prefix == <<"M", "C", "_">>
FallbackCode(hostname, now) ==
    MC_Prefix \o toUpperCase(substring(sha256hex(HostnameAndTime(hostname, now)), 0, 13))

\* The call that throws inside the try block, if any.  The catch block
\* calls os.hostname() again: 'again' tells whether a hostname read that
\* failed fails there too.
Faults == {"none", "hostname", "networkInterfaces"}
FallbackThrows(fault, again) == again /\ fault = "hostname"

\* getMachineCode(): the code returned, or an exception out of the catch.
getMachineCode(h, now, fault, again) ==
    IF fault = "none" THEN [thrown |-> FALSE, val |-> NormalCode(CollectInfo(h))]
    ELSE IF FallbackThrows(fault, again) THEN [thrown |-> TRUE, val |-> <<>>]
    ELSE [thrown |-> FALSE, val |-> FallbackCode(h.hostname, now)]

MSG_MACHINE_CODE == "failed to get the machine code"

\* ipcMain.handle('get-machine-code'): the result, with the fault that
\* struck the call it came from.
MachineCodeResult(code) ==
    IF code.thrown THEN [success |-> FALSE, message |-> MSG_MACHINE_CODE]
                   ELSE [success |-> TRUE, machineCode |-> code.val]

GetMachineCode ==
    /\ RendererAlive
    /\ Len(machineCodes) < MaxCalls
    /\ \E fault \in Faults, again \in BOOLEAN :
         machineCodes' = Append(machineCodes,
             [fault |-> fault, now |-> clock,
              result |-> MachineCodeResult(getMachineCode(host, clock, fault, again))])
    /\ UNCHANGED <<host, clock>>
    /\ UNCHANGED <<appState, isMac, keychain, windows, loginWindow, mainWindow, invokes,
                   logoutsPending, clearsPending, activatesPending>>

\* Time passes.
Tick ==
    /\ Ready
    /\ clock < MaxClock
    /\ clock' = clock + 1
    /\ UNCHANGED <<host, machineCodes>>
    /\ UNCHANGED <<appState, isMac, keychain, windows, loginWindow, mainWindow, invokes,
                   logoutsPending, clearsPending, activatesPending>>

\* ---------------------------------------------------------- specification
\* The store outlives the process: at launch it holds whatever earlier runs
\* left, a token or none and a remembered username (as submitted) or none.
StoredNames == {JsNull} \cup (Usernames \ {NotAString})

Init ==
    /\ appState = "starting"
    /\ isMac \in BOOLEAN
    /\ keychain \in {[k \in Keys |-> IF k = ACCOUNT_KEY THEN tok ELSE name] :
                        tok \in {JsNull, mockToken}, name \in StoredNames}
    /\ windows = [w \in WindowIds |-> NoWindow]
    /\ loginWindow = Null
    /\ mainWindow = Null
    /\ invokes = [p \in InvokeIds |-> Idle]
    /\ logoutsPending = 0
    /\ clearsPending = 0
    /\ activatesPending = 0
    /\ host = CHOOSE h \in Hosts : h.hostname = "host-a" /\ h.networkInterfaces = <<>>
    /\ clock = 0
    /\ machineCodes = <<>>

Next ==
    \/ Startup
    \/ \E p \in InvokeIds, username \in Usernames, password \in Passwords,
          remember \in BOOLEAN : LoginInvoke(p, username, password, remember)
    \/ \E p \in InvokeIds : LoginDelayDone(p)
    \/ \E p \in InvokeIds : LoginSetTokenDone(p)
    \/ \E p \in InvokeIds : LoginSetUserDone(p)
    \/ \E p \in InvokeIds : CheckAuth(p)
    \/ \E p \in InvokeIds : GetStoredUsername(p)
    \/ \E p \in InvokeIds : GetAuthToken(p)
    \/ \E p \in InvokeIds : Deliver(p)
    \/ Logout
    \/ LogoutDone
    \/ ClearAuthToken
    \/ ClearAuthTokenDone
    \/ Activate
    \/ ActivateDone
    \/ \E w \in WindowIds : WindowControlClose(w)
    \/ \E w \in WindowIds : Closed(w)

Spec == Init /\ [][Next]_vars

\* While the process runs, the event loop gets to every timer that has
\* expired and every promise that has settled: a login submission that can
\* take its next step takes it.
FairSpec ==
    /\ Spec
    /\ \A p \in InvokeIds : /\ WF_vars(LoginDelayDone(p))
                            /\ WF_vars(LoginSetTokenDone(p))
                            /\ WF_vars(LoginSetUserDone(p))

\* get-machine-code on its own: any host, the login window of a launch
\* with an empty store open, and nothing else going on.
MachineInit ==
    /\ appState = "ready"
    /\ isMac = FALSE
    /\ keychain = [k \in Keys |-> JsNull]
    /\ windows = [w \in WindowIds |-> IF w = 1 THEN NewWindow("login") ELSE NoWindow]
    /\ loginWindow = 1
    /\ mainWindow = Null
    /\ invokes = [p \in InvokeIds |-> Idle]
    /\ logoutsPending = 0
    /\ clearsPending = 0
    /\ activatesPending = 0
    /\ host \in Hosts
    /\ clock = 0
    /\ machineCodes = <<>>

MachineNext ==
    \/ GetMachineCode
    \/ Tick

MachineSpec == MachineInit /\ [][MachineNext]_vars

\* ================================================================ claims
\* Which step of a behaviour this is.
Returns(p, op)  == /\ invokes[p].pc # "returned"
                   /\ invokes'[p].pc = "returned"
                   /\ invokes'[p].op = op
LoginSucceeds(p) == Returns(p, "login") /\ invokes'[p].result = LoginResult(TRUE, MSG_SUCCESS)
LogoutCompletes == logoutsPending' < logoutsPending
\* The logout whose deletePassword resolved: it went on to the windows.
LogoutSucceeds  == LogoutCompletes /\ windows' # windows
GateStep        == \/ appState = "starting" /\ appState' = "ready"
                   \/ activatesPending' < activatesPending
Created(kind)   == \E w \in WindowIds : ~Exists(w) /\ windows'[w] = NewWindow(kind)
OpenIn(ws, kind) == {w \in WindowIds : ws[w].kind = kind /\ ~ws[w].closing}
HasReturned(p, op) == invokes[p].pc = "returned" /\ invokes[p].op = op

\* What a check-auth issued right after this step answers, for every way
\* its read of the store can go.
CheckAuthNext == {CheckAuthResult(o) : o \in getPasswordFrom(keychain', ACCOUNT_KEY)}
\* The same for get-stored-username.
StoredUsernameNext == {StoredUsernameResult(o) : o \in getPasswordFrom(keychain', USERNAME_KEY)}

\* C1 as stated: check-auth answers Authenticated exactly when the store
\* holds a credential at the call, and the startup gate's checkAuthToken
\* opens the main window exactly when it does.
C1_AuthenticatedIffStored ==
    [][/\ \A p \in InvokeIds : Returns(p, "check-auth") =>
            (invokes'[p].result.val.isAuthenticated <=> keychain[ACCOUNT_KEY] # JsNull)
       /\ GateStep => (Created("main") <=> keychain[ACCOUNT_KEY] # JsNull)]_vars

\* C1 amended: check-auth never throws; it answers Authenticated only when
\* the store holds a credential at the call, and then returns that very
\* credential; it answers Unauthenticated when the store holds none, and
\* with a credential in the store only through the read-failure answer
\* {isAuthenticated: false} that carries no token.  The gate opens the main
\* window only when the store holds a credential and the login window
\* whenever it holds none.
C1_AuthenticatedIffReadGivesToken ==
    [][/\ \A p \in InvokeIds : Returns(p, "check-auth") =>
            LET r == invokes'[p].result
            IN  /\ ~r.thrown
                /\ r.val.isAuthenticated =>
                      r.val.token = keychain[ACCOUNT_KEY] /\ keychain[ACCOUNT_KEY] # JsNull
                /\ ~r.val.isAuthenticated =>
                      \/ keychain[ACCOUNT_KEY] = JsNull /\ r.val.token \in {JsNull, JsUndefined}
                      \/ keychain[ACCOUNT_KEY] # JsNull /\ r.val.token = JsUndefined
       /\ GateStep /\ Created("main") => keychain[ACCOUNT_KEY] # JsNull
       /\ GateStep /\ keychain[ACCOUNT_KEY] = JsNull => Created("login")]_vars

C1_Witness ==
    \E p \in InvokeIds : /\ HasReturned(p, "check-auth")
                         /\ invokes[p].result.val.isAuthenticated
                         /\ keychain[ACCOUNT_KEY] = mockToken

C3_LogoutThenUnauthenticated ==
    [][LogoutCompletes => \A r \in CheckAuthNext : ~r.val.isAuthenticated]_vars

\* C3 amended: a logout whose deletePassword succeeds is followed by a
\* check-auth that answers Unauthenticated, whatever the credential and the
\* windows were before, a second logout in a row included.
C3_SuccessfulLogoutThenUnauthenticated ==
    [][LogoutSucceeds => \A r \in CheckAuthNext : ~r.val.isAuthenticated]_vars

\* Two login windows on a platform without activate: logout has run, the
\* second time with a login window already open.
C3_Witness ==
    /\ ~isMac
    /\ Cardinality(OpenOfKind("login")) = 2
    /\ keychain[ACCOUNT_KEY] = JsNull

\* C4: after a successful login with remember set, get-stored-username
\* (its read succeeding) returns the trimmed username.
C4_StoredUsernameIsTrimmed ==
    [][\A p \in InvokeIds :
          LoginSucceeds(p) /\ invokes[p].remember =>
              StoredUsernameResult(Got(keychain'[USERNAME_KEY]))
                  = Returned(Trim(invokes[p].username))]_vars

\* C5: after a successful login with remember unset, get-stored-username
\* returns the empty string however its read goes, whatever username the
\* store held before: the store holds none any more.
C5_RememberUnsetClearsUsername ==
    [][\A p \in InvokeIds :
          LoginSucceeds(p) /\ ~invokes[p].remember =>
              /\ keychain'[USERNAME_KEY] = JsNull
              /\ \A r \in StoredUsernameNext : r = Returned(EmptyString)]_vars

C5_Witness ==
    \E p \in InvokeIds : /\ HasReturned(p, "login")
                         /\ invokes[p].result = LoginResult(TRUE, MSG_SUCCESS)
                         /\ keychain[USERNAME_KEY] = JsNull

\* C6: a logout (its delete succeeding) ends with exactly one login window
\* open and no main window open, from whatever windows there were: a second
\* logout adds no second login window.
C6_LogoutEndsInOneLoginWindow ==
    [][LogoutSucceeds =>
          /\ Cardinality(OpenIn(windows', "login")) = 1
          /\ OpenIn(windows', "main") = {}]_vars

\* C7: a login window and a main window are never open at the same time.
C7_SurfacesMutuallyExclusive ==
    ~(OpenOfKind("login") # {} /\ OpenOfKind("main") # {})

C9_LoginNeverThrows ==
    \A p \in InvokeIds :
        HasReturned(p, "login") =>
            /\ ~invokes[p].result.thrown
            /\ ~invokes[p].result.val.success =>
                  invokes[p].result.val.message \in {MSG_DEFAULT, MSG_NETWORK, MSG_TIMEOUT}

\* C10: check-auth, get-stored-username and get-auth-token never throw;
\* each returns either the answer for what the store holds or its safe
\* default ({isAuthenticated: false}, ''), and the safe default when the
\* key is absent.
C10_QueriesAbsorbStoreFailures ==
    [][\A p \in InvokeIds :
          LET r == invokes'[p].result
              token == keychain[ACCOUNT_KEY]
              name  == keychain[USERNAME_KEY]
          IN  /\ Returns(p, "check-auth") =>
                    /\ ~r.thrown
                    /\ r.val \in {[isAuthenticated |-> token # JsNull, token |-> token],
                                  [isAuthenticated |-> FALSE, token |-> JsUndefined]}
                    /\ token = JsNull => ~r.val.isAuthenticated
              /\ Returns(p, "get-stored-username") =>
                    /\ ~r.thrown
                    /\ r.val \in {name, EmptyString}
                    /\ r.val.t = "string"
              /\ Returns(p, "get-auth-token") =>
                    /\ ~r.thrown
                    /\ r.val \in {token, EmptyString}
                    /\ r.val.t = "string"]_vars

\* get-auth-token answered '' although the store holds the token: its read
\* failed and the failure was absorbed.
C10_Witness ==
    \E p \in InvokeIds : /\ HasReturned(p, "get-auth-token")
                         /\ invokes[p].result = Returned(EmptyString)
                         /\ keychain[ACCOUNT_KEY] = mockToken

\* C11: the stored username changes only in the step where a login
\* submission returns success; a logout, a clear-auth-token, a query, the
\* startup gate and an activate leave it as it was, so get-stored-username
\* (its read succeeding) answers after a logout what it answered before.
C11_UsernameChangedOnlyByLogin ==
    [][/\ keychain'[USERNAME_KEY] # keychain[USERNAME_KEY] =>
            \E p \in InvokeIds : LoginSucceeds(p)
       /\ \/ LogoutCompletes
          \/ clearsPending' < clearsPending
          \/ GateStep
          \/ \E p \in InvokeIds :
                \/ Returns(p, "check-auth")
                \/ Returns(p, "get-auth-token")
                \/ Returns(p, "get-stored-username")
          => StoredUsernameResult(Got(keychain'[USERNAME_KEY]))
                = StoredUsernameResult(Got(keychain[USERNAME_KEY]))]_vars

\* A logout has taken the main window down and opened the login window,
\* the credential is gone and the remembered username is still stored.
C11_Witness ==
    /\ logoutsPending = 0
    /\ keychain[ACCOUNT_KEY] = JsNull
    /\ keychain[USERNAME_KEY] = Str(<<"a">>)
    /\ OpenOfKind("login") # {}
    /\ \E w \in WindowIds : windows[w] = [kind |-> "main", closing |-> TRUE]

\* C12: a clear-auth-token handler, when it completes, has changed no
\* window and neither window reference, has left the stored username as it
\* was, and has at most removed the credential: the store then holds no
\* credential, or (the delete rejected) the one it held.
C12_ClearTouchesCredentialOnly ==
    [][clearsPending' # clearsPending =>
          /\ windows' = windows
          /\ loginWindow' = loginWindow /\ mainWindow' = mainWindow
          /\ appState' = appState
          /\ keychain'[USERNAME_KEY] = keychain[USERNAME_KEY]
          /\ keychain'[ACCOUNT_KEY] \in {JsNull, keychain[ACCOUNT_KEY]}]_vars

\* The main window is the only window, nothing is in flight, and the
\* store holds no credential but still the remembered username.
C12_Witness ==
    /\ clearsPending = 0 /\ logoutsPending = 0
    /\ \A p \in InvokeIds : invokes[p] = Idle
    /\ mainWindow # Null /\ IsOpen(mainWindow)
    /\ getAllWindows = {mainWindow}
    /\ keychain[ACCOUNT_KEY] = JsNull
    /\ keychain[USERNAME_KEY] = Str(<<"a">>)

\* What the claims about get-machine-code speak of.
IsNormalCode(code) == Len(code) = 16 /\ \A i \in DOMAIN code : code[i] \in UpperHexDigits
HasMarker(code)    == Len(code) >= 3 /\ SubSeq(code, 1, 3) = MC_Prefix
\* The calls in which every step went through.
Unfaulted == {i \in DOMAIN machineCodes : machineCodes[i].fault = "none"}
Faulted   == DOMAIN machineCodes \ Unfaulted
\* The entries of the host's interface list that are not internal and
\* carry a hardware address other than the all-zero one.
Physical == {j \in DOMAIN host.networkInterfaces :
                LET e == host.networkInterfaces[j]
                IN  e.internal = FALSE /\ e.mac \notin {MacAbsent, ZeroMac}}
RecordOf(e) == [name |-> e.name, mac |-> e.mac, family |-> e.family]

\* C13: on an unchanged host every get-machine-code call whose steps all
\* went through returns success with one and the same code, whenever it
\* is made, and that code is 16 characters, each of 0-9 or A-F.
C13_MachineCodeDeterministic ==
    \A i \in Unfaulted :
        /\ machineCodes[i].result.success
        /\ IsNormalCode(machineCodes[i].result.machineCode)
        /\ \A j \in Unfaulted : machineCodes[j].result = machineCodes[i].result

\* Two such calls at different times, their code holding a letter.
C13_Witness ==
    \E i, j \in Unfaulted :
        /\ machineCodes[i].now # machineCodes[j].now
        /\ machineCodes[i].result.machineCode = machineCodes[j].result.machineCode
        /\ \E k \in 1..16 : machineCodes[i].result.machineCode[k] \in {"A", "B", "C", "D", "E", "F"}

\* C14: the interface records of info are exactly the records of the
\* host's entries that are not internal and have a hardware address other
\* than 00:00:00:00:00:00; with no such entry there is no record, and a
\* call whose steps all went through returns the 16-digit code of the
\* host's other attributes, without the MC_ marker.
C14_ContributingInterfaces ==
    LET recs == CollectInfo(host).networkInterfaces
        ifs  == host.networkInterfaces
    IN  /\ Len(recs) = Cardinality(Physical)
        /\ \A i \in DOMAIN recs : \E j \in Physical : recs[i] = RecordOf(ifs[j])
        /\ \A j \in Physical : \E i \in DOMAIN recs : recs[i] = RecordOf(ifs[j])
        /\ Physical = {} =>
              /\ recs = <<>>
              /\ \A i \in Unfaulted :
                    LET r == machineCodes[i].result
                    IN  /\ r.success
                        /\ IsNormalCode(r.machineCode) /\ ~HasMarker(r.machineCode)
                        /\ r.machineCode
                             = NormalCode(CollectInfo([host EXCEPT !.networkInterfaces = <<>>]))

\* An interface list of internal and all-zero entries only, and a call made.
C14_Witness ==
    /\ Len(host.networkInterfaces) = 2
    /\ \E j \in DOMAIN host.networkInterfaces : host.networkInterfaces[j].internal
    /\ \E j \in DOMAIN host.networkInterfaces :
          ~host.networkInterfaces[j].internal /\ host.networkInterfaces[j].mac = ZeroMac
    /\ Physical = {}
    /\ Unfaulted # {}

\* C19: a get-machine-code call in which a step failed, whichever step,
\* returns success with a code carrying the MC_ marker, which no normal
\* code carries.
C19_FallbackAlwaysProduced ==
    \A i \in Faulted :
        /\ machineCodes[i].result.success
        /\ HasMarker(machineCodes[i].result.machineCode)
        /\ ~IsNormalCode(machineCodes[i].result.machineCode)

\* The steps a submission can take, as pairs of positions.
LoginOrder == {<<"idle", "delay">>, <<"idle", "returned">>, <<"delay", "setToken">>,
               <<"setToken", "setUser">>, <<"setToken", "returned">>,
               <<"setUser", "returned">>, <<"returned", "idle">>}
Moves(p)    == invokes'[p].pc # invokes[p].pc
SameWindows == /\ windows' = windows
               /\ loginWindow' = loginWindow
               /\ mainWindow' = mainWindow

\* C15: a login submission goes through its steps in order, one at a
\* time: the backend call, then the credential write, then the username
\* write or delete, then the windows.  A credential appears in the store
\* only in the step that follows a completed backend call; the stored
\* username changes only in the step after the credential write; the steps
\* before the last change no window; the main window is created (outside
\* the gate) only in the step that returns success, and then the username
\* mutation is in the store.
C15_LoginStepsInOrder ==
    [][/\ \A p \in InvokeIds : Moves(p) => <<invokes[p].pc, invokes'[p].pc>> \in LoginOrder
       /\ keychain'[ACCOUNT_KEY] # JsNull /\ keychain'[ACCOUNT_KEY] # keychain[ACCOUNT_KEY] =>
            \E p \in InvokeIds : invokes[p].pc = "setToken" /\ invokes'[p].pc = "setUser"
       /\ keychain'[USERNAME_KEY] # keychain[USERNAME_KEY] =>
            \E p \in InvokeIds : invokes[p].pc = "setUser" /\ invokes'[p].pc = "returned"
       /\ \A p \in InvokeIds :
            Moves(p) /\ invokes[p].pc \in {"idle", "delay", "setToken"} => SameWindows
       /\ \A p \in InvokeIds :
            LoginSucceeds(p) =>
                /\ invokes[p].pc = "setUser"
                /\ Created("main")
                /\ keychain'[USERNAME_KEY] =
                      IF invokes[p].remember THEN invokes[p].username ELSE JsNull
       /\ Created("main") /\ ~GateStep => \E p \in InvokeIds : LoginSucceeds(p)]_vars

\* A submission with remember set has returned success: credential and
\* username are stored, the login window is closing, the main window open.
C15_Witness ==
    \E p \in InvokeIds :
        /\ HasReturned(p, "login")
        /\ invokes[p].result = LoginResult(TRUE, MSG_SUCCESS)
        /\ keychain[ACCOUNT_KEY] = mockToken
        /\ keychain[USERNAME_KEY] = Str(<<" ", "a", " ">>)
        /\ OpenOfKind("main") # {}
        /\ \E w \in WindowIds : windows[w] = [kind |-> "login", closing |-> TRUE]

\* C16: a login submission that does not return success leaves in the
\* store the credential that would be there without it.
C16_NoPartialSuccess ==
    [][\A p \in InvokeIds :
          Returns(p, "login") /\ ~LoginSucceeds(p) =>
              IF invokes[p].pc \in InFlight
              THEN keychain'[ACCOUNT_KEY] = invokes[p].baseline
              ELSE keychain'[ACCOUNT_KEY] = keychain[ACCOUNT_KEY]]_vars

\* C17: no step of a login submission other than the one returning
\* success changes a window or a window reference; the step that returns
\* success: false in particular leaves them all as they are.
C17_FailedLoginLeavesWindows ==
    [][\A p \in InvokeIds :
          /\ Moves(p) /\ invokes'[p].op = "login" /\ ~LoginSucceeds(p) => SameWindows
          /\ Returns(p, "login") /\ ~LoginSucceeds(p) => SameWindows]_vars

\* A submission has returned failure: the login window is still
\* open and referred to, and there is no main window.
C17_Witness ==
    \E p \in InvokeIds :
        /\ HasReturned(p, "login")
        /\ invokes[p].result = LoginResult(FALSE, MSG_DEFAULT)
        /\ keychain[ACCOUNT_KEY] = mockToken
        /\ loginWindow # Null /\ IsOpen(loginWindow)
        /\ getAllWindows = {loginWindow}

\* A submission whose credential write is still to come, and one whose
\* credential write has resolved or rejected.
WritePending(p) == invokes[p].pc \in {"delay", "setToken"}
WriteDone(p)    == invokes[p].op = "login" /\ invokes[p].pc \in {"setUser", "returned"}
NoLoginWindow   == OpenOfKind("login") = {}

\* C18 as stated: a submission in flight with the login window closed
\* always gets to its credential write.
C18_CloseDoesNotCancel ==
    \A p \in InvokeIds : (WritePending(p) /\ NoLoginWindow) ~> WriteDone(p)

\* C18 amended: a submission in flight with the login window closed gets
\* to its credential write unless the application quits first, which it
\* does when the window closed was the last one and the platform is not
\* macOS.
C18_CloseDoesNotCancelWhileRunning ==
    \A p \in InvokeIds :
        (WritePending(p) /\ NoLoginWindow) ~> (WriteDone(p) \/ appState = "quit")

\* On macOS every window is gone, the process runs on, and the submission
\* has written the credential.
C18_Witness ==
    \E p \in InvokeIds :
        /\ isMac /\ Ready
        /\ getAllWindows = {}
        /\ invokes[p].pc = "setUser"
        /\ keychain[ACCOUNT_KEY] = mockToken

\* C20: at most one login window and at most one main window are open;
\* a window reference that is set refers to an existing window of its
\* kind, and with a window of a kind open the reference of that kind
\* refers to it.
C20_SingleInstance ==
    /\ Cardinality(OpenOfKind("login")) <= 1
    /\ Cardinality(OpenOfKind("main")) <= 1
    /\ loginWindow # Null => Exists(loginWindow) /\ windows[loginWindow].kind = "login"
    /\ mainWindow # Null => Exists(mainWindow) /\ windows[mainWindow].kind = "main"
    /\ OpenOfKind("login") # {} => loginWindow \in OpenOfKind("login")
    /\ OpenOfKind("main") # {} => mainWindow \in OpenOfKind("main")

====
